---- MODULE Spec2Model ----
(***************************************************************************)
(* Model of the SHARKFin simulation loops (sharkfin/simulation.py), the    *)
(* per-agent update protocol of AgentPopulation (sharkfin/population.py)   *)
(* and the market price history (sharkfin/markets/__init__.py).            *)
(*                                                                         *)
(* Numbers.  The code computes in floating point; the model computes in    *)
(* fixed point over the integers, every division rounding down (\div):     *)
(*   - money (prices, dividends, wealth) is counted in units of            *)
(*     1/PriceUnit dollar, so that dividend = price / 1200 is a whole      *)
(*     number of units for every price a market clearing yields;           *)
(*   - normalized assets (aNrm) are counted in units of                    *)
(*     1/(dollars_per_hark_money_unit * PLvlLcm) of a HARK money unit, so  *)
(*     that dividing wealth by dollars_per_hark_money_unit * pLvl is exact *)
(*     for every pLvl of PLvlValues;                                       *)
(*   - a rate of return is the pair <<p_new - p_old, p_old>>;              *)
(*   - a risky share is a number of halves.                                *)
(* Rounding down keeps the sign of a quotient by a positive number:        *)
(* x/y >= 0 iff x \div y >= 0.                                             *)
(***************************************************************************)
EXTENDS Integers, Sequences, FiniteSets, TLC

\* ---------------------------------------------------------------- bounds
MaxRuns == 2             \* market clearings of the main loop: quarters * runs_per_quarter
MaxDaysPerQuarter == 2
MaxBurnIn == 1
MaxSeries == 2           \* orders of a series
MaxOps == 3
MaxQuietDays == 3              \* population operations applied in PopSpec

\* ------------------------------------------------------- program constants
DollarsPerHarkMoneyUnit == 1500
DefaultSimPrice == 100
PriceToDividendRatio == 1200

\* ------------------------------------------------------------ fixed point
PriceUnit == PriceToDividendRatio \div 50      \* money units per dollar
PLvlValues == {1, 2}                           \* permanent income levels
PLvlLcm ==                                     \* least common multiple of PLvlValues
    CHOOSE n \in 1..4 : /\ \A p \in PLvlValues : n % p = 0
                        /\ \A m \in 1..(n - 1) : \E p \in PLvlValues : m % p # 0
ANrmScale == DollarsPerHarkMoneyUnit * PriceUnit * PLvlLcm
ShareDen == PLvlLcm                            \* a risky share is counted in halves

Agents == {1, 2}
NoError == "none"
\* the texts a MarketFailureError can carry: the three the status codes
\* know, each standing for the messages that contain it, a text that
\* contains none of them, and the text "0"
FailureReasons == {"Hit market maker price range",
                   "Simulated final day but did not receive signal to end",
                   "Error in received data",
                   "Connection lost",
                   "0"}

\* aNrm * pLvl * dollars_per_hark_money_unit, in money units.  With aNrm
\* held in units of 1/ANrmScale the factor dollars_per_hark_money_unit
\* (in money units: DollarsPerHarkMoneyUnit * PriceUnit) cancels.
Dollars(aNrm, pLvl) == (aNrm * pLvl) \div PLvlLcm

\* money / (dollars_per_hark_money_unit * pLvl), in units of 1/ANrmScale
Normalize(money, pLvl) == (money * PLvlLcm) \div pLvl

Last(s) == s[Len(s)]
Prev(s) == s[Len(s) - 1]

\* ----------------------------------------------------------------- market
\* The clearing prices a market run can yield (MockMarket draws the price
\* from a lognormal distribution: any positive value), in money units.
InitialPrice == DefaultSimPrice * PriceUnit
PriceChoices == {InitialPrice \div 2, InitialPrice, InitialPrice * 2}

DividendOf(price) == price \div PriceToDividendRatio

\* The markets the simulation loops run against are deterministic: each
\* clearing doubles the last price ("up"), or it quarters a price above
\* the initial price and quadruples any other ("zigzag").
MarketScripts == {"up", "zigzag"}
ClearingPrice(m, script) ==
    IF script = "up" THEN 2 * Last(m.prices)
    ELSE IF Last(m.prices) > InitialPrice THEN Last(m.prices) \div 4
    ELSE 4 * Last(m.prices)

\* MockMarket.run_market: appends the drawn price and its dividend
RunMarket(m, price) ==
    [prices |-> Append(m.prices, price),
     dividends |-> Append(m.dividends, DividendOf(price))]

\* AbstractMarket.dummy_run: repeats the most recent price ratio
DummyRun(m) ==
    LET p1 == Last(m.prices)
        p2 == Prev(m.prices)
        \* prices[-1] / prices[-2] * prices[-1], left to right
        price == IF p1 % p2 = 0 THEN (p1 \div p2) * p1 ELSE (p1 * p1) \div p2
    IN [prices |-> Append(m.prices, price),
        dividends |-> Append(m.dividends, DividendOf(price))]

\* MockMarket.daily_rate_of_return: (prices[-1] - prices[-2]) / prices[-2]
DailyRateOfReturn(m) == <<Last(m.prices) - Prev(m.prices), Prev(m.prices)>>

MarketInit == [prices |-> <<InitialPrice>>, dividends |-> <<0>>]

\* ------------------------------------------------------------- population
\* The raw value of SequentialShareFuncAdj(aNrm), in halves: the policy is
\* an interpolant and may leave [0, 1].
RiskyShareOutcomes == {-1, 1, 3}

\* The policy the simulation loops run with: a function of the beliefs the
\* solution was assigned with (RiskyAvg in percent) that goes all in on a
\* rising market and leaves [0, 1] on both sides.
PolicyShare(solution) ==
    IF solution[1] > 100 THEN 3 ELSE IF solution[1] < 100 THEN -1 ELSE 1

\* AgentPopulation.compute_share_demand, given the policy's raw value
ClampShare(raw) == IF raw < 0 THEN 0 ELSE IF raw > ShareDen THEN ShareDen ELSE raw

ComputeShareDemand(agent, price, raw) ==
    LET risky_share == ClampShare(raw)
        risky_asset_wealth == (risky_share * Dollars(agent.aNrm, agent.pLvl)) \div ShareDen
    IN risky_asset_wealth \div price

\* AgentPopulation.assign_solution: the policy is built from the beliefs
\* the agent holds at the moment of the call
AssignSolution(agent) ==
    [agent EXCEPT !.solution = <<agent.RiskyAvg, agent.RiskyStd>>]

\* the difference taken the other way round
AttendDeltaReversed(target_shares, shares) == shares - target_shares

\* AgentPopulation.attend: <<agent after the call, returned delta>>
AttendDelta(target_shares, shares) == target_shares - shares

Attend(agent, price, risky_expectations, raw) ==
    LET a1 == AssignSolution([agent EXCEPT !.RiskyAvg = risky_expectations[1],
                                           !.RiskyStd = risky_expectations[2]])
        target_shares == ComputeShareDemand(a1, price, raw)
        delta_shares == AttendDelta(target_shares, agent.shares)
    IN <<[a1 EXCEPT !.shares = target_shares], delta_shares>>

\* The outcomes of agent.simulate(sim_periods=1): the new permanent income
\* level and the new normalized assets mNrm - cNrm, which the interpolated
\* consumption function can leave negative.
SimulateOutcomes ==
    {[pLvl |-> 1, aNrm |-> -(ANrmScale \div 5)],
     [pLvl |-> 2, aNrm |-> 0],
     [pLvl |-> 2, aNrm |-> ANrmScale \div 5]}

\* what one agent.simulate(sim_periods=1) leaves: the states of an element
\* of SimulateOutcomes and controls["Share"], the raw value of the policy
SimulateOutcome(states, share) ==
    [pLvl |-> states.pLvl, aNrm |-> states.aNrm, Share |-> share]

\* the difference left as it is computed
MacroDeltaUnclipped(asset_level_in_shares, shares) == asset_level_in_shares - shares

\* AgentPopulation.macro_update: <<agent after the call, returned delta>>
\* delta = asset_level_in_shares - agent.shares; delta[delta > 0] = 0
MacroDelta(asset_level_in_shares, shares) ==
    IF asset_level_in_shares - shares > 0 THEN 0 ELSE asset_level_in_shares - shares

\* the no-change values of the one-period simulation left assigned
ExpectationsLeftAssigned(agent, true_risky_expectations) == agent

\* agent.assign_parameters(**true_risky_expectations)
PutBack(agent, true_risky_expectations) ==
    [agent EXCEPT !.RiskyAvg = true_risky_expectations[1],
                  !.RiskyStd = true_risky_expectations[2]]

MacroUpdate(agent, price, out) ==
    LET true_risky_expectations == <<agent.RiskyAvg, agent.RiskyStd>>
        a1 == AssignSolution(agent)
        \* agent.assign_parameters(RiskyAvg = 1, RiskyStd = 0); agent.simulate
        a2 == [a1 EXCEPT !.RiskyAvg = 100, !.RiskyStd = 0,
                         !.pLvl = out.pLvl, !.aNrm = out.aNrm,
                         !.aLvl = out.aNrm * out.pLvl, !.Share = out.Share]
        a3 == PutBack(a2, true_risky_expectations)
        asset_level_in_shares == Dollars(a3.aNrm, a3.pLvl) \div price
        delta == MacroDelta(asset_level_in_shares, a3.shares)
    IN <<[a3 EXCEPT !.shares = a3.shares + delta], delta>>

\* AgentPopulation.update_agent_wealth_capital_gains, for one agent
\* old_share_price = new_share_price / (1 + pror)
OldSharePrice(new_share_price, pror) ==
    LET num == pror[2]
        den == pror[2] + pror[1]
    IN IF new_share_price % den = 0 THEN (new_share_price \div den) * num
       ELSE (new_share_price * num) \div den

\* the assets clamped, the shares left as they were
SharesKept(aNrm, shares) == shares

\* agent.shares[(agent.state_now["aNrm"] == 0)] = 0
ClampedShares(aNrm, shares) == IF aNrm = 0 THEN 0 ELSE shares

UpdateAgentWealth(agent, new_share_price, pror, dividend) ==
    LET old_share_price == OldSharePrice(new_share_price, pror)
        old_raw == agent.shares * old_share_price
        new_raw == agent.shares * new_share_price
        dividends == agent.shares * dividend
        delta_aNrm == Normalize(new_raw - old_raw + dividends, agent.pLvl)
        aNrm1 == agent.aNrm + delta_aNrm
        aNrm2 == IF aNrm1 < 0 THEN 0 ELSE aNrm1
        shares2 == IF aNrm1 < 0 THEN ClampedShares(aNrm2, agent.shares) ELSE agent.shares
    IN [agent EXCEPT !.aNrm = aNrm2, !.shares = shares2,
                     !.aLvl = aNrm2 * agent.pLvl,
                     !.nWealth = agent.nWealth + 1]

\* only the agents that hold shares
AgentsHoldingShares(population) ==
    {a \in DOMAIN population : population[a].shares # 0}

\* for agent in self.agents
UpdatedAgents(population) == DOMAIN population

UpdateAgentWealthCapitalGains(population, new_share_price, pror, dividend) ==
    [a \in DOMAIN population |->
        IF a \in UpdatedAgents(population)
        THEN UpdateAgentWealth(population[a], new_share_price, pror, dividend)
        ELSE population[a]]

\* ----------------------------------------------------------------- broker
\* sharkfin.broker.Broker: pending sums, the two logs of realized flow
BrokerInit ==
    [buy_limit |-> 0, sell_limit |-> 0, buy_macro |-> 0, sell_macro |-> 0,
     buy_sell_history |-> <<>>, buy_sell_macro_history |-> <<>>, closed |-> 0,
     cleared |-> FALSE]

RECURSIVE SumBuy(_), SumSell(_)
SumBuy(order) ==
    IF order = <<>> THEN 0
    ELSE (IF Head(order) > 0 THEN Head(order) ELSE 0) + SumBuy(Tail(order))
SumSell(order) ==
    IF order = <<>> THEN 0
    ELSE (IF Head(order) < 0 THEN -Head(order) ELSE 0) + SumSell(Tail(order))

\* Broker.transact(delta_shares, macro): an order is an array of signed
\* share deltas, positive entries bought and negative entries sold
\* (cleared: a trade has returned and no transact has followed it yet)
Transact(b, order, macro) ==
    IF macro
    THEN [b EXCEPT !.buy_macro = @ + SumBuy(order), !.sell_macro = @ + SumSell(order),
                   !.cleared = FALSE]
    ELSE [b EXCEPT !.buy_limit = @ + SumBuy(order), !.sell_limit = @ + SumSell(order),
                   !.cleared = FALSE]

\* the realized pairs logged, the pending sums kept
TradeLoggedKeepingPending(b) ==
    [b EXCEPT !.buy_sell_history = Append(@, <<b.buy_limit, b.sell_limit>>),
              !.buy_sell_macro_history = Append(@, <<b.buy_macro, b.sell_macro>>),
              !.cleared = TRUE]

\* Broker.trade, the clearing succeeding: the realized pairs are logged and
\* the pending sums reset
TradeLogged(b) ==
    [b EXCEPT !.buy_sell_history = Append(@, <<b.buy_limit, b.sell_limit>>),
              !.buy_sell_macro_history = Append(@, <<b.buy_macro, b.sell_macro>>),
              !.buy_limit = 0, !.sell_limit = 0, !.buy_macro = 0, !.sell_macro = 0,
              !.cleared = TRUE]

\* Broker.track(buy_sell, buy_sell_macro)
BrokerTrack(b, bs, bsm) ==
    [b EXCEPT !.buy_sell_history = Append(@, bs),
              !.buy_sell_macro_history = Append(@, bsm)]

BrokerClose(b) == [b EXCEPT !.closed = @ + 1]

\* ------------------------------------------------------ expectation model
\* FinanceModel: the expectations are a function of the price history; with
\* fewer than two prices the default is returned
Expectations(m) ==
    IF Len(m.prices) < 2 THEN <<100, 0>>
    ELSE LET p1 == Last(m.prices)
             p2 == Prev(m.prices)
             avg == IF p1 % p2 = 0 THEN 100 * (p1 \div p2) ELSE (100 * p1) \div p2
         IN <<avg, IF avg < 100 THEN 100 - avg ELSE avg - 100>>

CalculateRiskyExpectations(f, m) ==
    [f EXCEPT !.expected = Expectations(m), !.calculated = @ + 1]

FmInit == [expected |-> <<0, 0>>, calculated |-> 0, read |-> 0]

\* the model as the constructor builds it, never updated from the history
ConstructedFmUncalculated(m) == FmInit

\* MacroSimulation.__init__: self.fm = Fm(self.market, ...);
\* self.fm.calculate_risky_expectations()
ConstructedFm(m) == CalculateRiskyExpectations(FmInit, m)

\* ------------------------------------------------------------------ state
VARIABLES
    cfg,            \* constructor and simulate() arguments of the run
    pc,             \* position of simulate()
    market,         \* market.prices, market.dividends
    broker,         \* the broker's pending sums and logs
    fm,             \* the expectation model
    pop,            \* pop.agents: the state of every agent
    loc,            \* local variables of simulate() and burn_in()
    error_message,  \* self.error_message
    history,        \* self.history, one entry per track() call
    calls,          \* number of calls made so far, per operation
    qlog,           \* per agent, the days of the current quarter with a macro_update
    lastOp          \* the most recent population operation and its arguments

vars == <<cfg, pc, market, broker, fm, pop, loc, error_message, history,
          calls, qlog, lastOp>>

Classes == {"Market", "Macro", "Attention", "Series", "Calibration"}
WithPopulation == {"Macro", "Attention"}
Quarterly == {"Market", "Macro", "Attention"}

\* attention rates and rng.random() draws, in halves: rates 0, 1/2, 1 and
\* draws 0, 1/2 of the half-open interval [0, 1)
RateDen == ShareDen
RngDraws == 0..(RateDen - 1)
AttentionRates == 0..RateDen

\* the comparison made inclusive
AttendsInclusive(r, rate) == r <= rate

\* rng.random() < self.attention_rate
Attends(r, rate) == r < rate

\* (buy, sell) pairs of a calibration shock or of a series
OrderChoices == {<<0, 0>>, <<2, 1>>, <<2, -1>>}

FirstAgent == 1
NAgents == Cardinality(Agents)

\* normalized assets of an agent at the start of a run (init_simulation)
InitANrm == (4 * InitialPrice * PLvlLcm)

AgentInit(md) ==
    [aNrm |-> InitANrm, pLvl |-> 1, aLvl |-> InitANrm, shares |-> 0,
     RiskyAvg |-> 100, RiskyStd |-> 0, solution |-> <<100, 0>>,
     Share |-> 0, macro_day |-> md, nWealth |-> 0]

\* MarketSimulation.__init__: days_per_run = days_per_quarter / runs_per_quarter,
\* used as int(self.days_per_run)
DaysPerRun(c) == c.dpq \div c.rpq

NoShock == [pLvl |-> 1, aNrm |-> 0]

Configs ==
    {c \in [cls : Classes, q : 1..MaxRuns, dpq : 1..MaxDaysPerQuarter,
            rpq : 1..MaxRuns, rate : AttentionRates, burn : 0..MaxBurnIn,
            script : MarketScripts, shock : SimulateOutcomes \cup {NoShock},
            orders : {<<>>}] :
        /\ c.cls \in Quarterly
        /\ c.q * c.rpq <= MaxRuns
        /\ c.cls # "Attention" => c.rate = RateDen
        /\ IF c.cls = "Market" THEN c.shock = NoShock ELSE c.shock \in SimulateOutcomes}
    \cup
    {[cls |-> k, q |-> 1, dpq |-> 1, rpq |-> 1, rate |-> RateDen, burn |-> b,
      script |-> sc, shock |-> NoShock, orders |-> o] :
        k \in {"Series", "Calibration"}, b \in 0..MaxBurnIn, sc \in MarketScripts,
        o \in UNION {[1..n -> OrderChoices] : n \in 1..MaxSeries}}

\* AttentionSimulation.__init__: macro_day = rng.integers(days_per_quarter);
\* MacroSimulation.__init__: macro_day = 0
MacroDays(c) ==
    IF c.cls = "Attention" THEN [Agents -> 0..(c.dpq - 1)] ELSE {[a \in Agents |-> 0]}

LocInit ==
    [burn_left |-> 0, quarter |-> 0, run |-> 0, day |-> 0, days |-> 0,
     last_day |-> FALSE, day_in_run |-> 0, new_run |-> FALSE,
     price |-> 0, pror |-> <<0, 1>>, dividend |-> 0, agent |-> FirstAgent, idx |-> 1,
     raised |-> NoError]

CallsInit ==
    [attend |-> [a \in Agents |-> 0], macro_update |-> [a \in Agents |-> 0],
     transact |-> 0, trade |-> 0, wealth |-> 0, expect |-> 0, track |-> 0,
     days |-> 0, runs |-> 0]

NoOp == [op |-> "none"]

\* a simulation object as its constructor leaves it, for one of the
\* configurations of C
Constructed(C) ==
    /\ cfg \in C
    /\ pc = "start"
    /\ market = MarketInit
    /\ broker = BrokerInit
    /\ fm = IF cfg.cls \in WithPopulation THEN ConstructedFm(MarketInit) ELSE FmInit
    /\ \E md \in MacroDays(cfg) : pop = [a \in Agents |-> AgentInit(md[a])]
    /\ loc = LocInit
    /\ error_message = NoError
    /\ history = <<>>
    /\ calls = CallsInit
    /\ qlog = [a \in Agents |-> <<>>]
    /\ lastOp = NoOp

Init == Constructed({c \in Configs : c.cls = "Calibration" => Len(c.orders) = 1})

\* ------------------------------------------------------------ the actions
RECURSIVE SumOf(_, _)
SumOf(f, S) ==
    IF S = {} THEN 0
    ELSE LET a == CHOOSE x \in S : TRUE IN f[a] + SumOf(f, S \ {a})

\* MacroSimulation.track: one entry is appended to every per-tick series
\* (total_assets and owned_shares are kept; mean_income_level and
\* total_consumption_level are appended by the same call)
TrackEntry(population) ==
    [total_assets |-> SumOf([a \in Agents |-> population[a].aLvl], Agents) \div PLvlLcm,
     owned_shares |-> SumOf([a \in Agents |-> population[a].shares], Agents)]

\* the entry not appended
TrackDropped(h, population, cls) == h

\* self.track(day): MarketSimulation inherits the empty AbstractSimulation.track;
\* SeriesSimulation and CalibrationSimulation append a run time
Track(h, population, cls) ==
    IF cls \in WithPopulation THEN Append(h, TrackEntry(population))
    ELSE IF cls = "Market" THEN h
    ELSE Append(h, [run_time |-> 0])

Count(c, what) == [c EXCEPT ![what] = @ + 1]

\* MacroSimulation.start_simulation / MarketSimulation.start_simulation
StartSimulation ==
    /\ pc = "start"
    /\ IF cfg.cls \in WithPopulation
       THEN pop' = [a \in Agents |->
                      [pop[a] EXCEPT !.shares =
                          ComputeShareDemand(pop[a], Last(market.prices),
                                             PolicyShare(pop[a].solution))]]
       ELSE pop' = pop
    /\ loc' = [loc EXCEPT !.burn_left = cfg.burn]
    /\ pc' = "burn_in"
    /\ UNCHANGED <<cfg, market, broker, fm, error_message, history, calls, qlog, lastOp>>

\* an order of one share
BurnInOrderOfOne == <<1>>

\* burn_in: self.broker.transact(np.zeros(1))
BurnInOrder == <<0>>

\* one iteration of burn_in(n_days), the clearing succeeding
BurnInDay ==
    /\ pc = "burn_in"
    /\ loc.burn_left > 0
    /\ LET p == ClearingPrice(market, cfg.script)
            m1 == RunMarket(market, p)
            ror == DailyRateOfReturn(m1)
            dividend == Last(m1.dividends)
        IN /\ market' = m1
           /\ broker' = TradeLogged(Transact(broker, BurnInOrder, FALSE))
           /\ IF cfg.cls \in WithPopulation
              THEN /\ pop' = UpdateAgentWealthCapitalGains(pop, p, ror, dividend)
                   /\ fm' = CalculateRiskyExpectations(fm, m1)
                   /\ calls' = [calls EXCEPT !.transact = @ + 1, !.trade = @ + 1,
                                             !.wealth = @ + 1, !.expect = @ + 1,
                                             !.days = @ + 1]
                   /\ lastOp' = [op |-> "wealth", before |-> pop, price |-> p,
                                 pror |-> ror, dividend |-> dividend]
              ELSE /\ UNCHANGED <<pop, fm, lastOp>>
                   /\ calls' = [calls EXCEPT !.transact = @ + 1, !.trade = @ + 1,
                                             !.days = @ + 1]
    /\ loc' = [loc EXCEPT !.burn_left = @ - 1]
    /\ UNCHANGED <<cfg, pc, error_message, history, qlog>>

\* broker.trade() raises MarketFailureError inside burn_in: nothing catches
\* it and it leaves simulate()
BurnInFails ==
    /\ pc = "burn_in"
    /\ loc.burn_left > 0
    /\ broker' = Transact(broker, BurnInOrder, FALSE)
    /\ \E reason \in FailureReasons : loc' = [loc EXCEPT !.raised = reason]
    /\ calls' = [calls EXCEPT !.transact = @ + 1, !.trade = @ + 1]
    /\ pc' = "crashed"
    /\ UNCHANGED <<cfg, market, fm, pop, error_message, history, qlog, lastOp>>

\* self.track(-1) and the initialisation of the main loop
TrackStart ==
    /\ pc = "burn_in"
    /\ loc.burn_left = 0
    /\ history' = Track(history, pop, cfg.cls)
    /\ calls' = Count(calls, "track")
    /\ loc' = [loc EXCEPT !.days = 0, !.last_day = FALSE, !.quarter = 0, !.idx = 1]
    /\ pc' = IF cfg.cls \in Quarterly THEN "quarter"
             ELSE IF cfg.cls = "Series" THEN "series" ELSE "calibrate"
    /\ UNCHANGED <<cfg, market, broker, fm, pop, error_message, qlog, lastOp>>

\* for quarter in range(quarters): day = 0
QuarterHead ==
    /\ pc = "quarter"
    /\ IF loc.quarter < cfg.q
       THEN /\ loc' = [loc EXCEPT !.day = 0, !.run = 0]
            /\ qlog' = [a \in Agents |-> <<>>]
            /\ pc' = "run"
       ELSE /\ pc' = "close"
            /\ UNCHANGED <<loc, qlog>>
    /\ UNCHANGED <<cfg, market, broker, fm, pop, error_message, history, calls, lastOp>>

\* for run in range(self.runs_per_quarter)
RunHead ==
    /\ pc = "run"
    /\ IF loc.run < cfg.rpq
       THEN /\ loc' = [loc EXCEPT !.agent = FirstAgent]
            /\ pc' = "attend"
       ELSE /\ loc' = [loc EXCEPT !.quarter = @ + 1]
            /\ pc' = "quarter"
    /\ UNCHANGED <<cfg, market, broker, fm, pop, error_message, history, calls, qlog, lastOp>>

NextAgent(next) ==
    /\ loc' = [loc EXCEPT !.agent = @ + 1]
    /\ pc' = IF loc.agent = NAgents THEN next ELSE pc

\* MarketSimulation.simulate: self.broker.transact(np.zeros(1))
ZeroOrder ==
    /\ pc = "attend"
    /\ cfg.cls = "Market"
    /\ broker' = Transact(broker, <<0>>, FALSE)
    /\ calls' = Count(calls, "transact")
    /\ pc' = "trade"
    /\ UNCHANGED <<cfg, market, fm, pop, loc, error_message, history, qlog, lastOp>>

\* the agent attends: broker.transact(pop.attend(agent, prices[-1], expectations))
AttendAgent ==
    /\ pc = "attend"
    /\ cfg.cls \in WithPopulation
    /\ cfg.cls = "Attention" => \E r \in RngDraws : Attends(r, cfg.rate)
    /\ LET a == loc.agent
            raw == PolicyShare(fm.expected)
            res == Attend(pop[a], Last(market.prices), fm.expected, raw)
        IN /\ pop' = [pop EXCEPT ![a] = res[1]]
           /\ broker' = Transact(broker, <<res[2]>>, FALSE)
           /\ lastOp' = [op |-> "attend", agent |-> a, before |-> pop[a],
                         price |-> Last(market.prices), raw |-> raw,
                         expected |-> fm.expected, delta |-> res[2]]
           /\ calls' = [calls EXCEPT !.attend[a] = @ + 1, !.transact = @ + 1]
    /\ fm' = [fm EXCEPT !.read = @ + 1]
    /\ NextAgent("trade")
    /\ UNCHANGED <<cfg, market, error_message, history, qlog>>

\* the draw is not below the attention rate: the agent is passed over
PassAgent ==
    /\ pc = "attend"
    /\ cfg.cls = "Attention"
    /\ \E r \in RngDraws : ~Attends(r, cfg.rate)
    /\ NextAgent("trade")
    /\ UNCHANGED <<cfg, market, broker, fm, pop, error_message, history, calls, qlog, lastOp>>

\* if (days == days_to_simulate-1): last_day = True
LastDay(l, c) ==
    IF c.cls = "Attention" /\ l.days = c.q * c.rpq - 1 THEN TRUE ELSE l.last_day

\* broker.trade(last_day), the clearing succeeding
Trade ==
    /\ pc = "trade"
    /\ LET p == ClearingPrice(market, cfg.script)
            m1 == RunMarket(market, p)
        IN /\ market' = m1
           /\ broker' = TradeLogged(broker)
           /\ loc' = [loc EXCEPT !.last_day = LastDay(loc, cfg),
                                 !.price = p, !.pror = DailyRateOfReturn(m1),
                                 !.dividend = Last(m1.dividends),
                                 !.new_run = TRUE, !.day_in_run = 0]
    /\ calls' = [calls EXCEPT !.trade = @ + 1, !.runs = @ + 1]
    /\ pc' = "day"
    /\ UNCHANGED <<cfg, fm, pop, error_message, history, qlog, lastOp>>

\* the failure swallowed and the run started again
AfterFailureRetries(cls) == "run"

\* what follows a MarketFailureError of broker.trade in the main loop:
\* AttentionSimulation records it and returns; in the other loops nothing
\* catches it
AfterFailure(cls) == IF cls = "Attention" THEN "stopped" ELSE "crashed"

TradeFails ==
    /\ pc = "trade"
    /\ \E reason \in FailureReasons :
        /\ error_message' = IF cfg.cls = "Attention" THEN reason ELSE error_message
        /\ loc' = [loc EXCEPT !.last_day = LastDay(loc, cfg), !.raised = reason]
    /\ calls' = Count(calls, "trade")
    /\ pc' = AfterFailure(cfg.cls)
    /\ UNCHANGED <<cfg, market, broker, fm, pop, history, qlog, lastOp>>

\* for day_in_run in range(int(self.days_per_run))
DayHead ==
    /\ pc = "day"
    /\ IF loc.day_in_run < DaysPerRun(cfg)
       THEN /\ loc' = [loc EXCEPT !.agent = FirstAgent]
            /\ pc' = IF cfg.cls \in WithPopulation THEN "macro" ELSE "pad"
       ELSE /\ loc' = [loc EXCEPT !.run = @ + 1]
            /\ pc' = "run"
    /\ UNCHANGED <<cfg, market, broker, fm, pop, error_message, history, calls, qlog, lastOp>>

\* the test made on every day from the macro day on
OnOrAfterMacroDay(agent, day) == agent.macro_day <= day

\* if agent.macro_day == day
OnMacroDay(agent, day) == agent.macro_day = day

\* broker.transact(pop.macro_update(agent, price), macro=True)
MacroAgent ==
    /\ pc = "macro"
    /\ OnMacroDay(pop[loc.agent], loc.day)
    /\ LET a == loc.agent
            out == SimulateOutcome(cfg.shock, PolicyShare(AssignSolution(pop[a]).solution))
            res == MacroUpdate(pop[a], loc.price, out)
        IN /\ pop' = [pop EXCEPT ![a] = res[1]]
           /\ broker' = Transact(broker, <<res[2]>>, TRUE)
           /\ lastOp' = [op |-> "macro_update", agent |-> a, before |-> pop[a],
                         price |-> loc.price, out |-> out, delta |-> res[2]]
           /\ calls' = [calls EXCEPT !.macro_update[a] = @ + 1, !.transact = @ + 1]
           /\ qlog' = [qlog EXCEPT ![a] = Append(@, loc.day)]
    /\ NextAgent("pad")
    /\ UNCHANGED <<cfg, market, fm, error_message, history>>

MacroPass ==
    /\ pc = "macro"
    /\ ~OnMacroDay(pop[loc.agent], loc.day)
    /\ NextAgent("pad")
    /\ UNCHANGED <<cfg, market, broker, fm, pop, error_message, history, calls, qlog, lastOp>>

\* if new_run: new_run = False; else: the logs (and, in AttentionSimulation,
\* the market history) are padded for the skipped day
Pad ==
    /\ pc = "pad"
    /\ IF loc.new_run
       THEN /\ loc' = [loc EXCEPT !.new_run = FALSE]
            /\ UNCHANGED <<broker, market>>
       ELSE /\ broker' = BrokerTrack(broker, <<0, 0>>, <<0, 0>>)
            /\ market' = IF cfg.cls = "Attention" THEN DummyRun(market) ELSE market
            /\ UNCHANGED loc
    /\ pc' = IF cfg.cls \in WithPopulation THEN "wealth" ELSE "track"
    /\ UNCHANGED <<cfg, fm, pop, error_message, history, calls, qlog, lastOp>>

\* self.pop.update_agent_wealth_capital_gains(price, pror, dividend)
Wealth ==
    /\ pc = "wealth"
    /\ pop' = UpdateAgentWealthCapitalGains(pop, loc.price, loc.pror, loc.dividend)
    /\ lastOp' = [op |-> "wealth", before |-> pop, price |-> loc.price,
                  pror |-> loc.pror, dividend |-> loc.dividend]
    /\ calls' = Count(calls, "wealth")
    /\ pc' = "track"
    /\ UNCHANGED <<cfg, market, broker, fm, loc, error_message, history, qlog>>

\* self.track(day)
TrackDay ==
    /\ pc = "track"
    /\ history' = Track(history, pop, cfg.cls)
    /\ calls' = Count(calls, "track")
    /\ pc' = IF cfg.cls \in WithPopulation THEN "expect" ELSE "advance"
    /\ UNCHANGED <<cfg, market, broker, fm, pop, loc, error_message, qlog, lastOp>>

\* self.fm.calculate_risky_expectations()
Expect ==
    /\ pc = "expect"
    /\ fm' = CalculateRiskyExpectations(fm, market)
    /\ calls' = Count(calls, "expect")
    /\ pc' = "advance"
    /\ UNCHANGED <<cfg, market, broker, pop, loc, error_message, history, qlog, lastOp>>

\* day = day + 1 (and days += 1 in AttentionSimulation)
Advance ==
    /\ pc = "advance"
    /\ loc' = [loc EXCEPT !.day = @ + 1, !.day_in_run = @ + 1,
                          !.days = IF cfg.cls = "Attention" THEN @ + 1 ELSE @]
    /\ calls' = Count(calls, "days")
    /\ pc' = "day"
    /\ UNCHANGED <<cfg, market, broker, fm, pop, error_message, history, qlog, lastOp>>

\* self.broker.close() after the main loop
Close ==
    /\ pc = "close"
    /\ broker' = BrokerClose(broker)
    /\ pc' = "done"
    /\ UNCHANGED <<cfg, market, fm, pop, loc, error_message, history, calls, qlog, lastOp>>

\* a (buy, sell) pair as the order the loops build: np.array((buy, -sell))
PairOrder(bs) == <<bs[1], -bs[2]>>

\* SeriesSimulation.simulate: one order of the series
SeriesStep ==
    /\ pc = "series"
    /\ loc.idx <= Len(cfg.orders)
    /\ market' = RunMarket(market, ClearingPrice(market, cfg.script))
    /\ broker' = TradeLogged(Transact(broker, PairOrder(cfg.orders[loc.idx]), FALSE))
    /\ history' = Track(history, pop, cfg.cls)
    /\ calls' = [calls EXCEPT !.transact = @ + 1, !.trade = @ + 1, !.track = @ + 1,
                              !.days = @ + 1]
    /\ loc' = [loc EXCEPT !.idx = @ + 1]
    /\ UNCHANGED <<cfg, pc, fm, pop, error_message, qlog, lastOp>>

SeriesFails ==
    /\ pc = "series"
    /\ loc.idx <= Len(cfg.orders)
    /\ broker' = Transact(broker, PairOrder(cfg.orders[loc.idx]), FALSE)
    /\ \E reason \in FailureReasons : loc' = [loc EXCEPT !.raised = reason]
    /\ calls' = [calls EXCEPT !.transact = @ + 1, !.trade = @ + 1]
    /\ pc' = "crashed"
    /\ UNCHANGED <<cfg, market, fm, pop, error_message, history, qlog, lastOp>>

SeriesEnd ==
    /\ pc = "series"
    /\ loc.idx > Len(cfg.orders)
    /\ pc' = "close"
    /\ UNCHANGED <<cfg, market, broker, fm, pop, loc, error_message, history, calls, qlog, lastOp>>

\* CalibrationSimulation.simulate: the shock is cleared, tracked and the
\* broker closed
Calibrate ==
    /\ pc = "calibrate"
    /\ market' = RunMarket(market, ClearingPrice(market, cfg.script))
    /\ broker' = BrokerClose(TradeLogged(
                    Transact(broker, PairOrder(cfg.orders[1]), FALSE)))
    /\ history' = Track(history, pop, cfg.cls)
    /\ calls' = [calls EXCEPT !.transact = @ + 1, !.trade = @ + 1, !.track = @ + 1,
                              !.days = @ + 1]
    /\ pc' = "done"
    /\ UNCHANGED <<cfg, fm, pop, loc, error_message, qlog, lastOp>>

\* except MarketFailureError as e: self.error_message = str(e)
CalibrateFails ==
    /\ pc = "calibrate"
    /\ \E reason \in FailureReasons :
        /\ error_message' = reason
        /\ loc' = [loc EXCEPT !.raised = reason]
    /\ broker' = Transact(broker, PairOrder(cfg.orders[1]), FALSE)
    /\ calls' = [calls EXCEPT !.transact = @ + 1, !.trade = @ + 1]
    /\ pc' = "done"
    /\ UNCHANGED <<cfg, market, fm, pop, history, qlog, lastOp>>

Next ==
    \/ StartSimulation \/ BurnInDay \/ BurnInFails \/ TrackStart
    \/ QuarterHead \/ RunHead \/ ZeroOrder \/ AttendAgent \/ PassAgent
    \/ Trade \/ TradeFails \/ DayHead \/ MacroAgent \/ MacroPass
    \/ Pad \/ Wealth \/ TrackDay \/ Expect \/ Advance \/ Close
    \/ SeriesStep \/ SeriesFails \/ SeriesEnd \/ Calibrate \/ CalibrateFails

Spec == Init /\ [][Next]_vars

\* ---------------------------------------------------------- the statistics
\* "phrase" in message: a failure text of the model contains a known phrase
\* when it is that phrase
Contains(message, phrase) == message = phrase

\* MarketSimulation.status_code_from_message
StatusCodeFromMessage(message) ==
    IF message = "0" \/ message = NoError THEN "0"
    ELSE IF Contains(message, "Hit market maker price range") THEN "1"
    ELSE IF Contains(message, "Error in received data") THEN "-2"
    ELSE IF Contains(message, "Simulated final day but did not receive signal to end")
    THEN "3"
    ELSE "4"

\* MarketSimulation.sim_stats: the two entries about the outcome of the run
SimStats ==
    [error_message |-> error_message,
     status_code |-> StatusCodeFromMessage(error_message)]

\* ------------------------------------------------- runs without attention
\* QuietSpec: AttentionSimulation runs of one quarter with attention rate 0
\* against the rising market, with quarters of up to MaxQuietDays days, so
\* that a run has skipped days before the first macro day.
QuietConfigs ==
    {c \in [cls : {"Attention"}, q : {1}, dpq : 1..MaxQuietDays, rpq : 1..MaxRuns,
            rate : {0}, burn : 0..MaxBurnIn, script : {"up"},
            shock : SimulateOutcomes, orders : {<<>>}] :
        c.rpq <= c.dpq}

QuietInit == Constructed(QuietConfigs)

QuietNext ==
    \/ StartSimulation \/ BurnInDay \/ BurnInFails \/ TrackStart
    \/ QuarterHead \/ RunHead \/ PassAgent
    \/ Trade \/ TradeFails \/ DayHead \/ MacroAgent \/ MacroPass
    \/ Pad \/ Wealth \/ TrackDay \/ Expect \/ Advance \/ Close

QuietSpec == QuietInit /\ [][QuietNext]_vars

\* --------------------------------------------- the population on its own
\* PopSpec applies attend, macro_update and the capital-gains update to a
\* population in any order, with any policy value, any outcome of
\* agent.simulate and any clearing price of PriceChoices.
PopCfg ==
    [cls |-> "Attention", q |-> 1, dpq |-> 1, rpq |-> 1, rate |-> RateDen,
     burn |-> 0, script |-> "up", shock |-> NoShock, orders |-> <<>>]

ExpectationChoices == {<<100, 0>>, <<105, 2>>}

PopInit ==
    /\ cfg = PopCfg
    /\ pc = "api"
    /\ market = MarketInit
    /\ broker = BrokerInit
    /\ fm = ConstructedFm(MarketInit)
    /\ \E raw \in [Agents -> RiskyShareOutcomes] :
        pop = [a \in Agents |->
                 [AgentInit(0) EXCEPT !.shares =
                     ComputeShareDemand(AgentInit(0), InitialPrice, raw[a])]]
    /\ loc = LocInit
    /\ error_message = NoError
    /\ history = <<>>
    /\ calls = CallsInit
    /\ qlog = [a \in Agents |-> <<>>]
    /\ lastOp = NoOp

PopStep ==
    /\ pc = "api"
    /\ loc.idx <= MaxOps
    /\ loc' = [loc EXCEPT !.idx = @ + 1]
    /\ UNCHANGED <<cfg, pc, fm, broker, calls, error_message, history, qlog>>

\* pop.attend(agent, price, risky_expectations)
PopAttend ==
    /\ PopStep
    /\ \E a \in Agents, raw \in RiskyShareOutcomes, e \in ExpectationChoices :
        LET res == Attend(pop[a], Last(market.prices), e, raw)
        IN /\ pop' = [pop EXCEPT ![a] = res[1]]
           /\ lastOp' = [op |-> "attend", agent |-> a, before |-> pop[a],
                         price |-> Last(market.prices), raw |-> raw,
                         expected |-> e, delta |-> res[2]]
    /\ UNCHANGED market

\* pop.macro_update(agent, price)
PopMacroUpdate ==
    /\ PopStep
    /\ \E a \in Agents, states \in SimulateOutcomes, share \in RiskyShareOutcomes :
        LET out == SimulateOutcome(states, share)
            res == MacroUpdate(pop[a], Last(market.prices), out)
        IN /\ pop' = [pop EXCEPT ![a] = res[1]]
           /\ lastOp' = [op |-> "macro_update", agent |-> a, before |-> pop[a],
                         price |-> Last(market.prices), out |-> out, delta |-> res[2]]
    /\ UNCHANGED market

\* a market clearing followed by pop.update_agent_wealth_capital_gains
PopClear ==
    /\ PopStep
    /\ \E p \in PriceChoices :
        LET m1 == RunMarket(market, p)
            ror == DailyRateOfReturn(m1)
            dividend == Last(m1.dividends)
        IN /\ market' = m1
           /\ pop' = UpdateAgentWealthCapitalGains(pop, p, ror, dividend)
           /\ lastOp' = [op |-> "wealth", before |-> pop, price |-> p,
                         pror |-> ror, dividend |-> dividend]

PopNext == PopAttend \/ PopMacroUpdate \/ PopClear

PopSpec == PopInit /\ [][PopNext]_vars

\* ------------------------------------------------------------- properties
\* positions of the loops between two days
BetweenDays == {"burn_in", "quarter", "run", "attend", "trade", "day", "close",
                "done", "stopped", "crashed"}
\* positions of a day after its capital-gains update
AfterWealth == {"track", "expect", "advance"}

\* runs_per_quarter is one of the values the constructor's comment lists:
\* int(days_per_run) * runs_per_quarter = days_per_quarter
WholeRuns(c) == c.dpq % c.rpq = 0

\* C1: in MarketSimulation, MacroSimulation and AttentionSimulation, after
\* N finished days in total (burn-in days and skipped days of a run
\* included) the price and dividend histories hold N + 1 entries and both
\* broker logs hold N entries.
C1_HistoriesAdvancePerDay ==
    (cfg.cls \in Quarterly /\ WholeRuns(cfg) /\ pc = "done") =>
        /\ Len(market.prices) = calls.days + 1
        /\ Len(market.dividends) = calls.days + 1
        /\ Len(broker.buy_sell_history) = calls.days
        /\ Len(broker.buy_sell_macro_history) = calls.days

\* C2: in AttentionSimulation.simulate, when broker.trade raises on a day of
\* the main loop, error_message becomes the text of the failure and from
\* then on no attend, transact, trade, macro_update, wealth update,
\* expectation update or track call is made and nothing else changes.
C2_FailureStopsRun ==
    [][cfg.cls = "Attention" =>
          /\ (pc = "trade" /\ loc'.raised # NoError) => error_message' = loc'.raised
          /\ error_message # NoError =>
                UNCHANGED <<calls, pop, broker, market, fm, history, error_message>>]_vars

\* a failure in a quarter that is not the last, on a day on which agents
\* had attended: the run has stopped with quarters left
C2_Witness ==
    /\ cfg.cls = "Attention"
    /\ pc = "stopped"
    /\ error_message \in FailureReasons
    /\ error_message = loc.raised
    /\ loc.quarter + 1 < cfg.q
    /\ \E a \in Agents : calls.attend[a] > 0

\* C3: a MarketFailure raised by broker.trade anywhere in a run (burn-in,
\* MarketSimulation, MacroSimulation, SeriesSimulation loops included) ends
\* the loop with the reason recorded in error_message and does not leave
\* simulate() as an unhandled error.
C3_FailureAlwaysRecorded ==
    loc.raised # NoError => (error_message = loc.raised /\ pc # "crashed")

\* the quarter with index loc.quarter - 1 has just been completed
QuarterCompleted == pc = "quarter" /\ loc.quarter > 0

\* C5 (as stated): in each completed quarter macro_update is invoked exactly
\* once for every agent, on the day of the quarter equal to its macro_day,
\* for every runs_per_quarter and days_per_quarter.
C5_MacroOncePerQuarter ==
    (cfg.cls = "Attention" /\ QuarterCompleted) =>
        \A a \in Agents : qlog[a] = <<pop[a].macro_day>>

\* C5 (amended): the same, when runs_per_quarter divides days_per_quarter.
C5_MacroOncePerQuarterWholeRuns ==
    (cfg.cls = "Attention" /\ WholeRuns(cfg) /\ QuarterCompleted) =>
        \A a \in Agents : qlog[a] = <<pop[a].macro_day>>

\* a second quarter completed, with two agents of different macro days
C5_Witness ==
    /\ cfg.cls = "Attention"
    /\ WholeRuns(cfg)
    /\ pc = "quarter"
    /\ loc.quarter > 0
    /\ cfg.dpq > 1
    /\ \E a, b \in Agents : pop[a].macro_day < pop[b].macro_day
    /\ \A a \in Agents : qlog[a] = <<pop[a].macro_day>>

\* C6: every completed day of simulate() and of the burn-in applies
\* update_agent_wealth_capital_gains exactly once, to every agent, whether
\* or not the agent attended or macro-updated that day.
C6_WealthOncePerDay ==
    cfg.cls \in WithPopulation =>
        LET done == calls.days + (IF pc \in AfterWealth THEN 1 ELSE 0)
        IN /\ calls.wealth = done
           /\ \A a \in Agents : pop[a].nWealth = done

\* a main-loop day has been completed in which an agent was updated although
\* it has neither attended nor macro-updated so far, while another agent
\* macro-updated on that day
C6_Witness ==
    /\ cfg.cls = "Attention"
    /\ pc = "day"
    /\ calls.days > cfg.burn
    /\ \E a, b \in Agents :
        /\ calls.attend[a] = 0
        /\ calls.macro_update[a] = 0
        /\ calls.macro_update[b] > 0
        /\ pop[a].nWealth = calls.days
        /\ pop[b].nWealth = calls.days

C4_NonNegativeAfterWealth ==
    lastOp.op = "wealth" =>
        \A a \in Agents : pop[a].shares >= 0 /\ pop[a].aNrm >= 0

\* normalized assets of an agent as the capital-gains update computes them,
\* before any clamping
UnclampedANrm(before, op) ==
    LET old_share_price == OldSharePrice(op.price, op.pror)
        gain == before.shares * op.price - before.shares * old_share_price
                  + before.shares * op.dividend
    IN before.aNrm + Normalize(gain, before.pLvl)

\* C8: an agent the update would leave with negative normalized assets ends
\* the call with normalized assets 0 and shares 0; every other agent keeps
\* its shares (and gets the updated assets).
C8_ForcedLiquidation ==
    lastOp.op = "wealth" =>
        \A a \in Agents :
            LET unclamped == UnclampedANrm(lastOp.before[a], lastOp)
            IN IF unclamped < 0
               THEN pop[a].aNrm = 0 /\ pop[a].shares = 0
               ELSE pop[a].aNrm = unclamped /\ pop[a].shares = lastOp.before[a].shares

\* one update that liquidates an agent holding shares and leaves another
\* agent's non-zero holding alone
C8_Witness ==
    /\ lastOp.op = "wealth"
    /\ \E a, b \in Agents :
        /\ UnclampedANrm(lastOp.before[a], lastOp) < 0
        /\ lastOp.before[a].shares # 0
        /\ pop[a].shares = 0
        /\ pop[a].aNrm = 0
        /\ UnclampedANrm(lastOp.before[b], lastOp) >= 0
        /\ lastOp.before[b].shares # 0
        /\ pop[b].shares = lastOp.before[b].shares

\* C9: after any attend call the agent's shares are >= 0 (a negative target
\* is replaced by 0 before it is stored and before the delta is computed).
C9_AttendFloorsShares ==
    lastOp.op = "attend" => pop[lastOp.agent].shares >= 0

\* C10: attend sets agent.shares to the target of compute_share_demand and
\* returns target minus the previous shares: previous shares + delta equals
\* the shares after the call.
C10_AttendDelta ==
    lastOp.op = "attend" =>
        LET before == lastOp.before
            after == pop[lastOp.agent]
            target == ComputeShareDemand(before, lastOp.price, lastOp.raw)
        IN /\ after.shares = target
           /\ lastOp.delta = target - before.shares
           /\ before.shares + lastOp.delta = after.shares

\* an attend call that sold shares, after one that bought
C10_Witness ==
    /\ lastOp.op = "attend"
    /\ lastOp.delta < 0
    /\ lastOp.before.shares > 0
    /\ pop[lastOp.agent].shares = lastOp.before.shares + lastOp.delta
    /\ pop[lastOp.agent].shares >= 0

\* C11: macro_update returns a delta <= 0 and sets agent.shares to the
\* previous shares + delta: the holding never increases, for any asset
\* level and any price.
C11_MacroNeverBuys ==
    lastOp.op = "macro_update" =>
        LET before == lastOp.before
            after == pop[lastOp.agent]
        IN /\ lastOp.delta <= 0
           /\ after.shares = before.shares + lastOp.delta
           /\ after.shares <= before.shares

\* a macro_update whose asset level, in shares, exceeds the holding: the
\* positive difference is not bought
C11_Witness ==
    /\ lastOp.op = "macro_update"
    /\ Dollars(pop[lastOp.agent].aNrm, pop[lastOp.agent].pLvl) \div lastOp.price
          > lastOp.before.shares
    /\ lastOp.before.shares > 0
    /\ lastOp.delta = 0
    /\ pop[lastOp.agent].shares = lastOp.before.shares

\* C12: a risky share outside [0, 1] produced by the policy is replaced by
\* the nearest bound in compute_share_demand (attend) and in macro_update.
C12_ShareClampedEverywhere ==
    /\ lastOp.op = "attend" =>
          pop[lastOp.agent].shares =
             ((ClampShare(lastOp.raw)
                 * Dollars(lastOp.before.aNrm, lastOp.before.pLvl)) \div ShareDen)
                \div lastOp.price
    /\ lastOp.op = "macro_update" =>
          /\ pop[lastOp.agent].Share >= 0
          /\ pop[lastOp.agent].Share <= ShareDen

\* C13: after macro_update the agent's normalized assets are >= 0.
C13_MacroLeavesNonNegativeAssets ==
    lastOp.op = "macro_update" => pop[lastOp.agent].aNrm >= 0

\* C14: in an AttentionSimulation run with one day per run and no burn-in,
\* when the k-th clearing raises a MarketFailure the history holds k entries
\* (the one of track(-1) and one per cleared tick) and error_message is not
\* empty.
C14_HistoryLengthAtFailure ==
    (cfg.cls = "Attention" /\ DaysPerRun(cfg) = 1 /\ cfg.burn = 0 /\ pc = "stopped") =>
        /\ Len(history) = calls.trade
        /\ Len(market.prices) = calls.trade
        /\ error_message # NoError

\* the second clearing of such a run has failed
C14_Witness ==
    /\ cfg.cls = "Attention" /\ DaysPerRun(cfg) = 1 /\ cfg.burn = 0
    /\ pc = "stopped"
    /\ calls.trade = 2
    /\ Len(history) = 2
    /\ error_message \in FailureReasons

\* C15: after b of the B days of a burn-in the market has cleared exactly b
\* times, each time with a zero order, no agent has attended or been
\* macro-updated, the history is empty, and the price history and both
\* broker logs have grown by b.
C15_BurnInOnlyClears ==
    pc = "burn_in" =>
        LET b == cfg.burn - loc.burn_left
        IN /\ calls.trade = b
           /\ calls.transact = b
           /\ Len(market.prices) = 1 + b
           /\ Len(market.dividends) = 1 + b
           /\ Len(broker.buy_sell_history) = b
           /\ Len(broker.buy_sell_macro_history) = b
           /\ \A i \in 1..b : /\ broker.buy_sell_history[i] = <<0, 0>>
                              /\ broker.buy_sell_macro_history[i] = <<0, 0>>
           /\ history = <<>>
           /\ \A a \in Agents : calls.attend[a] = 0 /\ calls.macro_update[a] = 0

\* a burn-in of at least one day has been completed with a population
C15_Witness ==
    /\ pc = "burn_in"
    /\ cfg.cls = "Attention"
    /\ cfg.burn >= 1
    /\ loc.burn_left = 0
    /\ calls.trade = cfg.burn
    /\ Len(market.prices) = 1 + cfg.burn

\* C16: after every trade() that returns, and until the first transact()
\* that follows it, the broker's pending aggregate, ordinary and macro, is
\* zero.
C16_PendingZeroAfterTrade ==
    broker.cleared =>
        /\ broker.buy_limit = 0 /\ broker.sell_limit = 0
        /\ broker.buy_macro = 0 /\ broker.sell_macro = 0

\* a trade has just cleared a pending aggregate that was not zero
C16_Witness ==
    /\ broker.cleared
    /\ broker.buy_sell_history # <<>>
    /\ Last(broker.buy_sell_history) # <<0, 0>>
    /\ \E i \in 1..Len(broker.buy_sell_macro_history) :
          broker.buy_sell_macro_history[i] # <<0, 0>>
    /\ broker.buy_limit = 0 /\ broker.sell_limit = 0
    /\ broker.buy_macro = 0 /\ broker.sell_macro = 0

\* C17: the configuration (the seed included, which the constructor only
\* stores) determines the run of an AttentionSimulation: from one state of
\* a run the attention decision on the next agent is the same in every run.
C17_SeedDeterminesRun ==
    (cfg.cls = "Attention" /\ pc = "attend") =>
        ~(ENABLED AttendAgent /\ ENABLED PassAgent)

\* C19: every risky_expectations() read is preceded by at least one
\* calculate_risky_expectations() on the same model, the read of the first
\* day of a run without burn-in included.
C19_ExpectationsCalculatedBeforeRead ==
    fm.read > 0 => fm.calculated > 0

\* an agent has attended on the first day of a run without burn-in, when
\* the only calculation is the constructor's
C19_Witness ==
    /\ cfg.cls \in WithPopulation
    /\ cfg.burn = 0
    /\ calls.days = 0
    /\ calls.expect = 0
    /\ fm.read > 0
    /\ fm.calculated = 1

\* C20: an order built by the Series or Calibration loop from a (buy, sell)
\* pair whose sell is negative is refused by broker.transact and adds
\* nothing to the pending aggregate: no such order is ever cleared and
\* logged.
C20_NegativeSellRefused ==
    cfg.cls \in {"Series", "Calibration"} =>
        \A k \in 1..Len(cfg.orders) :
            (k <= Len(broker.buy_sell_history) - cfg.burn) => cfg.orders[k][2] >= 0

\* the shares start_simulation gives an agent
InitialShares(a) ==
    ComputeShareDemand(AgentInit(pop[a].macro_day), InitialPrice,
                       PolicyShare(AgentInit(pop[a].macro_day).solution))

\* shares x (price change of the tick + dividend of the tick), summed over
\* the ticks of the price history
TickGains(shares, m) ==
    LET ticks == 2..Len(m.prices)
    IN SumOf([t \in ticks |-> shares * ((m.prices[t] - m.prices[t - 1]) + m.dividends[t])],
             ticks)

Rising(prices) == \A t \in 2..Len(prices) : prices[t] > prices[t - 1]

\* C18: with attention rate 0, no agent macro-updated yet and a price that
\* has risen on every tick, after the wealth update of every burn-in and
\* simulation tick each agent holds its initial shares and its assets are
\* the starting assets plus, summed over the ticks, shares x (price change
\* of the tick + dividend of the tick).
C18_QuietCompounding ==
    (/\ cfg.cls = "Attention" /\ cfg.rate = 0
     /\ pc # "start"
     /\ \A a \in Agents : calls.macro_update[a] = 0
     /\ Rising(market.prices)
     /\ calls.wealth = Len(market.prices) - 1) =>
        \A a \in Agents :
            /\ pop[a].shares = InitialShares(a)
            /\ Dollars(pop[a].aNrm, pop[a].pLvl) =
                   Dollars(InitANrm, 1) + TickGains(InitialShares(a), market)

\* two returns <<change, old price>> are the same fraction
SameReturn(r1, r2) == r1[1] * r2[2] = r2[1] * r1[2]

\* C21: on every simulated day, skipped days included, the price, dividend
\* and return passed to update_agent_wealth_capital_gains are the day's
\* realized values: the last entries of market.prices and market.dividends
\* and the fractional change between the last two prices.
C21_WealthUsesRealizedValues ==
    (lastOp.op = "wealth" /\ pc \in {"track", "burn_in"}) =>
        /\ lastOp.price = Last(market.prices)
        /\ lastOp.dividend = Last(market.dividends)
        /\ SameReturn(lastOp.pror, DailyRateOfReturn(market))

\* C22: attend is evaluated at the last price of the history as it stands
\* before the day's clearing, and every macro_update at the latest entry of
\* market.prices at the moment it is called.
C22_PricesOfTheDay ==
    [][/\ calls'.attend # calls.attend =>
            (lastOp'.op = "attend" /\ lastOp'.price = Last(market.prices))
       /\ calls'.macro_update # calls.macro_update =>
            (lastOp'.op = "macro_update" /\ lastOp'.price = Last(market.prices))]_vars

\* C23: within a day the history entry is appended only after the wealth
\* update and the recomputation of the expectations of that day (after
\* attend, trade and macro_update): no entry of a day is in the history
\* before the day's expectations are calculated.
C23_TrackAfterExpectations ==
    (cfg.cls \in WithPopulation /\ calls.track > 0) =>
        /\ calls.track - 1 <= calls.wealth - cfg.burn
        /\ calls.track - 1 <= calls.expect - cfg.burn

\* C24: every order forwarded to broker.transact during a run is included
\* in a later broker.trade before the run ends with broker.close(): when a
\* completed run has closed, nothing is pending in the broker.
C24_NothingPendingAtClose ==
    (pc = "done" /\ broker.closed > 0) =>
        /\ broker.buy_limit = 0 /\ broker.sell_limit = 0
        /\ broker.buy_macro = 0 /\ broker.sell_macro = 0

\* the clearing call about to be made is the last one of the run
FinalClearing == loc.quarter * cfg.rpq + loc.run + 1 = cfg.q * cfg.rpq

\* C25: in AttentionSimulation.simulate, broker.trade is called with
\* last_day = True on the final clearing call of the run and on no earlier
\* one, for every quarters, runs_per_quarter and days_per_quarter.
C25_LastDayOnFinalClearing ==
    [][(cfg.cls = "Attention" /\ pc = "trade") =>
          (loc'.last_day <=> FinalClearing)]_vars

\* C28: every simulate() call of AttentionSimulation or
\* CalibrationSimulation that terminates, normally or after a MarketFailure,
\* has called broker.close() exactly once, after its last broker.trade.
C28_ClosedOnEveryExit ==
    (cfg.cls \in {"Attention", "Calibration"} /\ pc \in {"done", "stopped"}) =>
        broker.closed = 1

\* bought minus sold over the pairs of a broker log
NetOf(log) == SumOf([i \in 1..Len(log) |-> log[i][1] - log[i][2]], 1..Len(log))

\* the sum of all deltas submitted to the broker, cleared or pending
NetSubmitted(b) ==
    NetOf(b.buy_sell_history) + NetOf(b.buy_sell_macro_history)
        + (b.buy_limit - b.sell_limit) + (b.buy_macro - b.sell_macro)

\* C26: once start_simulation has initialised the shares, the shares held
\* change only by the deltas attend and macro_update return and the loop
\* forwards to broker.transact: the total held by the population is the
\* initial total plus the sum of all deltas submitted to the broker.
C26_SharesFollowOrders ==
    (cfg.cls \in WithPopulation /\ pc # "start") =>
        SumOf([a \in Agents |-> pop[a].shares], Agents) =
            SumOf([a \in Agents |-> InitialShares(a)], Agents) + NetSubmitted(broker)

\* C27: at the end of every simulated day, after the wealth update, the
\* market value of the shares an agent holds at that day's price does not
\* exceed its total assets aNrm x pLvl x dollars_per_hark_money_unit.
C27_SharesWithinAssets ==
    (lastOp.op = "wealth" /\ pc \in {"track", "burn_in", "api"}) =>
        \A a \in Agents :
            pop[a].shares * Last(market.prices) <= Dollars(pop[a].aNrm, pop[a].pLvl)

\* C29: macro_update leaves the agent's beliefs unchanged: after the call
\* RiskyAvg and RiskyStd are the values held before it (the no-change
\* values 1 and 0 of the one-period simulation are not left assigned), and
\* the policy assigned is built from those pre-call beliefs.
C29_MacroKeepsBeliefs ==
    lastOp.op = "macro_update" =>
        LET before == lastOp.before
            after == pop[lastOp.agent]
        IN /\ after.RiskyAvg = before.RiskyAvg
           /\ after.RiskyStd = before.RiskyStd
           /\ after.solution = <<before.RiskyAvg, before.RiskyStd>>

\* a macro_update of an agent whose beliefs, taken at an earlier attend,
\* are not the no-change values
C29_Witness ==
    /\ lastOp.op = "macro_update"
    /\ lastOp.before.RiskyAvg # 100
    /\ lastOp.before.RiskyStd # 0
    /\ pop[lastOp.agent].RiskyAvg = lastOp.before.RiskyAvg
    /\ pop[lastOp.agent].solution = <<lastOp.before.RiskyAvg, lastOp.before.RiskyStd>>

\* C30: sim_stats reports status_code '0' exactly when no market failure
\* was recorded for the run; the three known reasons (price range hit,
\* error in received data, missing end signal on the final day) map to
\* '1', '-2' and '3', and any other recorded reason to '4'.
C30_StatusCodeOfRun ==
    /\ SimStats.status_code = "0" <=> error_message = NoError
    /\ error_message = "Hit market maker price range" => SimStats.status_code = "1"
    /\ error_message = "Error in received data" => SimStats.status_code = "-2"
    /\ error_message = "Simulated final day but did not receive signal to end" =>
          SimStats.status_code = "3"
    /\ error_message \in {"Connection lost", "0"} => SimStats.status_code = "4"


====
